---- MODULE Spec2Model ----
(***************************************************************************)
(* taskfi-escrow: the Anchor program of programs/taskfi-escrow/src/lib.rs. *)
(*                                                                         *)
(* The state is the set of Escrow accounts (one PDA per job_id), the SPL   *)
(* token balances of the token accounts the instructions touch, the Clock  *)
(* sysvar, the instruction in flight and the outcome of the instruction    *)
(* executed last.  Every instruction handler is one atomic action: the     *)
(* handler runs on a working copy of the accounts and the runtime keeps    *)
(* the copy only when the handler returns Ok(()).                          *)
(*                                                                         *)
(* There is one mint.  A token account is named by its authority: the      *)
(* associated token account of a wallet is named by the wallet, the        *)
(* custody account of a job by the job's escrow PDA, and the PDA by the    *)
(* job_id its seeds derive it from.                                        *)
(***************************************************************************)
EXTENDS Integers, FiniteSets, Sequences, TLC

\* ------------------------------------------------------------------ bounds
\* Bits of the modelled u64 (the code's u64 has 64).
Width == 2
\* Largest value of the Clock sysvar's unix_timestamp.
MaxTime == 2

Modulus == 2 ^ Width
U64 == 0 .. (Modulus - 1)

\* ------------------------------------------------------------- identities
Users == {"alice", "bob", "admin", "mallory"}
\* The wallets that sign initialize_escrow, and those named as freelancer.
Hirers == {"alice", "bob"}
Freelancers == {"alice", "bob"}
AllJobs == {"job-1", "job-2"}
OneJob == {"job-1"}
Reasons == {"quality issue"}
Deadlines == {MaxTime}

\* The tokens alice holds at the start; the other wallets hold none.
AliceTokens == 2
StartBalance(u) == IF u = "alice" THEN AliceTokens ELSE 0

\* Option<T>
None == << >>
Some(x) == << x >>

\* seeds = [b"escrow", job_id.as_bytes()]: the escrow PDA of a job.
Pda(job_id) == job_id
\* associated_token::authority = owner: the associated token account of owner.
Ata(owner) == owner
\* The SPL token account's owner field.
TokenOwner(account) == account
\* The custody account: the associated token account of the job's escrow PDA.
Custody(job_id) == Ata(Pda(job_id))
\* The canonical bump of the PDA.
Bump(job_id) == 255

TokenAccounts == {Ata(u) : u \in Users} \cup {Custody(j) : j \in AllJobs}

VARIABLES
    escrows,          \* job_id -> Option<Escrow>: the Escrow account at the PDA
    bal,              \* token account -> amount held
    clock,            \* Clock::get()?.unix_timestamp
    tx,               \* Option<instruction>: the instruction submitted, not yet run
    last              \* the outcome of the instruction run last

vars == << escrows, bal, clock, tx, last >>

\* ------------------------------------------------------------ instructions
NoKey == "-"

Instruction(op, job, signer) ==
    [ op |-> op, job |-> job, signer |-> signer,
      freelancer |-> NoKey, amount |-> 0, deadline |-> 0, reason |-> "",
      hirer_amount |-> 0, freelancer_amount |-> 0,
      platform_admin |-> NoKey,
      escrow_token_account |-> NoKey, hirer_token_account |-> NoKey ]

\* emit!: the event's name, the key it names as the one who acted, and its
\* amounts.
Event(name, by, amount, hirer_amount, freelancer_amount) ==
    [ name |-> name, by |-> by, amount |-> amount,
      hirer_amount |-> hirer_amount, freelancer_amount |-> freelancer_amount ]

NoEvent == Event("none", NoKey, 0, 0, 0)

NoOutcome ==
    [ op |-> "none", job |-> NoKey, res |-> "none", event |-> NoEvent,
      transfers |-> 0, sum_wrapped |-> FALSE, failed_leg |-> "none" ]

\* The accounts a handler works on.
Accounts == [ escrows |-> escrows, bal |-> bal ]

\* A handler's return: Err(code) leaves the working copy as it stands at the
\* `?` or require! that returned; `transfers` counts the token::transfer calls
\* that had succeeded by then, `sum_wrapped` tells that a u64 sum the
\* handler computed had wrapped, and `failed_leg` names the transfer of
\* resolve_dispute that returned the error.
Err(code, s, n) ==
    [ res |-> code, s |-> s, event |-> NoEvent, transfers |-> n,
      sum_wrapped |-> FALSE, failed_leg |-> "none" ]
Ok(s, event, n) ==
    [ res |-> "Ok", s |-> s, event |-> event, transfers |-> n,
      sum_wrapped |-> FALSE, failed_leg |-> "none" ]

\* A token account exists when its wallet does or when initialize_escrow has
\* created it together with the escrow.
TokenAccountExists(s, account) ==
    \/ account \in {Ata(u) : u \in Users}
    \/ \E j \in AllJobs : account = Custody(j) /\ s.escrows[j] # None

\* ------------------------------------------------------- token::transfer
\* The SPL token program's Transfer: all or nothing.  It fails when the
\* authority does not own the source, when the source holds less than
\* amount, or when either account is frozen.
\* A Transfer that does not ask who owns the source.
transfer_any_authority(b, from, to, authority, amount, frozen) ==
    IF \/ b[from] < amount
       \/ from \in frozen \/ to \in frozen
    THEN [ ok |-> FALSE, bal |-> b ]
    ELSE [ ok |-> TRUE,
           bal |-> [ [ b EXCEPT ![from] = @ - amount ] EXCEPT ![to] = @ + amount ] ]

transfer(b, from, to, authority, amount, frozen) ==
    IF \/ TokenOwner(from) # authority
       \/ b[from] < amount
       \/ from \in frozen \/ to \in frozen
    THEN [ ok |-> FALSE, bal |-> b ]
    ELSE [ ok |-> TRUE,
           bal |-> [ [ b EXCEPT ![from] = @ - amount ] EXCEPT ![to] = @ + amount ] ]

\* ------------------------------------------------------ initialize_escrow
\* initialize_escrow with the transfer's result dropped instead of returned.
initialize_escrow_unfunded(s, c, now, frozen) ==
    LET escrow == [ hirer          |-> c.signer,
                    freelancer     |-> c.freelancer,
                    job_id         |-> c.job,
                    amount         |-> c.amount,
                    deadline       |-> c.deadline,
                    is_released    |-> FALSE,
                    is_disputed    |-> FALSE,
                    dispute_reason |-> None,
                    created_at     |-> now,
                    released_at    |-> None,
                    disputed_at    |-> None,
                    bump           |-> Bump(c.job) ]
        s1 == [ s EXCEPT !.escrows[c.job] = Some(escrow) ]
        t  == transfer(s1.bal, c.hirer_token_account, Custody(c.job),
                       c.signer, c.amount, frozen)
    IN  Ok([ s1 EXCEPT !.bal = t.bal ],
           Event("EscrowCreated", escrow.hirer, escrow.amount, 0, 0), 1)

\* `init` zeroes the new account: the three Option fields the handler never
\* writes read None.
initialize_escrow(s, c, now, frozen) ==
    LET escrow == [ hirer          |-> c.signer,
                    freelancer     |-> c.freelancer,
                    job_id         |-> c.job,
                    amount         |-> c.amount,
                    deadline       |-> c.deadline,
                    is_released    |-> FALSE,
                    is_disputed    |-> FALSE,
                    dispute_reason |-> None,
                    created_at     |-> now,
                    released_at    |-> None,
                    disputed_at    |-> None,
                    bump           |-> Bump(c.job) ]
        s1 == [ s EXCEPT !.escrows[c.job] = Some(escrow) ]
        t  == transfer(s1.bal, c.hirer_token_account, Custody(c.job),
                       c.signer, c.amount, frozen)
    IN  IF ~ t.ok THEN Err("TransferFailed", s1, 0)
        ELSE Ok([ s1 EXCEPT !.bal = t.bal ],
                Event("EscrowCreated", escrow.hirer, escrow.amount, 0, 0), 1)

\* -------------------------------------------------------- release_payment
\* The guards of release_payment without the InDispute one.
release_payment_guards_no_dispute(escrow, signer, platform_admin) ==
    IF escrow.is_released THEN "AlreadyReleased"
    ELSE IF ~ (signer = escrow.hirer \/ signer = platform_admin)
    THEN "UnauthorizedRelease"
    ELSE "Ok"

\* The guards of release_payment with the platform admin left out of the
\* authorization.
release_payment_guards_hirer_only(escrow, signer, platform_admin) ==
    IF escrow.is_released THEN "AlreadyReleased"
    ELSE IF escrow.is_disputed THEN "InDispute"
    ELSE IF ~ (signer = escrow.hirer)
    THEN "UnauthorizedRelease"
    ELSE "Ok"

\* The three require! of release_payment, in the code's order.
release_payment_guards(escrow, signer, platform_admin) ==
    IF escrow.is_released THEN "AlreadyReleased"
    ELSE IF escrow.is_disputed THEN "InDispute"
    ELSE IF ~ (signer = escrow.hirer \/ signer = platform_admin)
    THEN "UnauthorizedRelease"
    ELSE "Ok"

release_payment(s, c, now, frozen) ==
    LET escrow == s.escrows[c.job][1]
        g == release_payment_guards(escrow, c.signer, c.platform_admin)
        t == transfer(s.bal, c.escrow_token_account, Ata(escrow.freelancer),
                      Pda(escrow.job_id), escrow.amount, frozen)
        released == [ escrow EXCEPT !.is_released = TRUE,
                                    !.released_at = Some(now) ]
    IN  IF g # "Ok" THEN Err(g, s, 0)
        ELSE IF ~ t.ok THEN Err("TransferFailed", s, 0)
        ELSE Ok([ escrows |-> [ s.escrows EXCEPT ![c.job] = Some(released) ],
                  bal |-> t.bal ],
                Event("PaymentReleased", c.signer, escrow.amount, 0, 0), 1)

\* ------------------------------------------------------- initiate_dispute
\* The guards of initiate_dispute with the freelancer left out of the
\* authorization.
initiate_dispute_guards_hirer_only(escrow, signer) ==
    IF escrow.is_released THEN "AlreadyReleased"
    ELSE IF escrow.is_disputed THEN "AlreadyDisputed"
    ELSE IF ~ (signer = escrow.hirer)
    THEN "UnauthorizedDispute"
    ELSE "Ok"

\* The guards of initiate_dispute without the one on is_released.
initiate_dispute_guards_released_too(escrow, signer) ==
    IF escrow.is_disputed THEN "AlreadyDisputed"
    ELSE IF ~ (signer = escrow.hirer \/ signer = escrow.freelancer)
    THEN "UnauthorizedDispute"
    ELSE "Ok"

\* The three require! of initiate_dispute, in the code's order.
initiate_dispute_guards(escrow, signer) ==
    IF escrow.is_released THEN "AlreadyReleased"
    ELSE IF escrow.is_disputed THEN "AlreadyDisputed"
    ELSE IF ~ (signer = escrow.hirer \/ signer = escrow.freelancer)
    THEN "UnauthorizedDispute"
    ELSE "Ok"

\* initiate_dispute writing a fourth field: the deadline, moved to the time
\* of the dispute.
initiate_dispute_moving_deadline(s, c, now) ==
    LET escrow == s.escrows[c.job][1]
        g == initiate_dispute_guards(escrow, c.signer)
        disputed == [ escrow EXCEPT !.is_disputed = TRUE,
                                    !.dispute_reason = Some(c.reason),
                                    !.disputed_at = Some(now),
                                    !.deadline = now ]
    IN  IF g # "Ok" THEN Err(g, s, 0)
        ELSE Ok([ s EXCEPT !.escrows[c.job] = Some(disputed) ],
                Event("DisputeInitiated", c.signer, 0, 0, 0), 0)

initiate_dispute(s, c, now) ==
    LET escrow == s.escrows[c.job][1]
        g == initiate_dispute_guards(escrow, c.signer)
        disputed == [ escrow EXCEPT !.is_disputed = TRUE,
                                    !.dispute_reason = Some(c.reason),
                                    !.disputed_at = Some(now) ]
    IN  IF g # "Ok" THEN Err(g, s, 0)
        ELSE Ok([ s EXCEPT !.escrows[c.job] = Some(disputed) ],
                Event("DisputeInitiated", c.signer, 0, 0, 0), 0)

\* -------------------------------------------------------- resolve_dispute
\* The guards of resolve_dispute with the split compared by <= instead of ==.
resolve_dispute_guards_at_most(escrow, hirer_amount, freelancer_amount, checks) ==
    IF ~ escrow.is_disputed THEN "NotInDispute"
    ELSE IF escrow.is_released THEN "AlreadyReleased"
    ELSE IF checks /\ hirer_amount + freelancer_amount >= Modulus
    THEN "ProgramFailedToComplete"
    ELSE IF ~ ((hirer_amount + freelancer_amount) % Modulus <= escrow.amount)
    THEN "InvalidSplitAmount"
    ELSE "Ok"

\* The three require! of resolve_dispute, in the code's order.  The sum is a
\* u64 addition: when it exceeds the largest u64 it panics in a build with
\* overflow-checks and wraps in a build without.
resolve_dispute_guards(escrow, hirer_amount, freelancer_amount, checks) ==
    IF ~ escrow.is_disputed THEN "NotInDispute"
    ELSE IF escrow.is_released THEN "AlreadyReleased"
    ELSE IF checks /\ hirer_amount + freelancer_amount >= Modulus
    THEN "ProgramFailedToComplete"
    ELSE IF ~ ((hirer_amount + freelancer_amount) % Modulus = escrow.amount)
    THEN "InvalidSplitAmount"
    ELSE "Ok"

\* The two transfers of resolve_dispute with the result of the hirer's
\* transfer dropped instead of returned.
resolve_dispute_legs_unchecked(b, c, escrow, frozen) ==
    LET t1 == IF c.freelancer_amount > 0
              THEN transfer(b, c.escrow_token_account, Ata(escrow.freelancer),
                            Pda(escrow.job_id), c.freelancer_amount, frozen)
              ELSE [ ok |-> TRUE, bal |-> b ]
        t2 == IF c.hirer_amount > 0
              THEN transfer(t1.bal, c.escrow_token_account, Ata(escrow.hirer),
                            Pda(escrow.job_id), c.hirer_amount, frozen)
              ELSE [ ok |-> TRUE, bal |-> t1.bal ]
    IN  IF ~ t1.ok
        THEN [ ok |-> FALSE, bal |-> b, transfers |-> 0,
               failed |-> "freelancer" ]
        ELSE [ ok |-> TRUE, bal |-> t2.bal, transfers |-> 2, failed |-> "none" ]

\* The two transfers of resolve_dispute in the other order: the hirer's
\* portion first.
resolve_dispute_legs_hirer_first(b, c, escrow, frozen) ==
    LET t1 == IF c.hirer_amount > 0
              THEN transfer(b, c.escrow_token_account, Ata(escrow.hirer),
                            Pda(escrow.job_id), c.hirer_amount, frozen)
              ELSE [ ok |-> TRUE, bal |-> b ]
        n1 == IF c.hirer_amount > 0 THEN 1 ELSE 0
        t2 == IF c.freelancer_amount > 0
              THEN transfer(t1.bal, c.escrow_token_account,
                            Ata(escrow.freelancer), Pda(escrow.job_id),
                            c.freelancer_amount, frozen)
              ELSE [ ok |-> TRUE, bal |-> t1.bal ]
        n2 == IF c.freelancer_amount > 0 THEN n1 + 1 ELSE n1
    IN  IF ~ t1.ok
        THEN [ ok |-> FALSE, bal |-> b, transfers |-> 0, failed |-> "hirer" ]
        ELSE IF ~ t2.ok
        THEN [ ok |-> FALSE, bal |-> t1.bal, transfers |-> n1,
               failed |-> "freelancer" ]
        ELSE [ ok |-> TRUE, bal |-> t2.bal, transfers |-> n2, failed |-> "none" ]

\* The two transfers of resolve_dispute: the freelancer's portion, then the
\* hirer's; a zero portion is skipped; the first failure returns.
resolve_dispute_legs(b, c, escrow, frozen) ==
    LET t1 == IF c.freelancer_amount > 0
              THEN transfer(b, c.escrow_token_account, Ata(escrow.freelancer),
                            Pda(escrow.job_id), c.freelancer_amount, frozen)
              ELSE [ ok |-> TRUE, bal |-> b ]
        n1 == IF c.freelancer_amount > 0 THEN 1 ELSE 0
        t2 == IF c.hirer_amount > 0
              THEN transfer(t1.bal, c.escrow_token_account, Ata(escrow.hirer),
                            Pda(escrow.job_id), c.hirer_amount, frozen)
              ELSE [ ok |-> TRUE, bal |-> t1.bal ]
        n2 == IF c.hirer_amount > 0 THEN n1 + 1 ELSE n1
    IN  IF ~ t1.ok
        THEN [ ok |-> FALSE, bal |-> b, transfers |-> 0,
               failed |-> "freelancer" ]
        ELSE IF ~ t2.ok
        THEN [ ok |-> FALSE, bal |-> t1.bal, transfers |-> n1,
               failed |-> "hirer" ]
        ELSE [ ok |-> TRUE, bal |-> t2.bal, transfers |-> n2, failed |-> "none" ]

resolve_dispute(s, c, now, frozen, checks) ==
    LET escrow == s.escrows[c.job][1]
        g == resolve_dispute_guards(escrow, c.hirer_amount, c.freelancer_amount,
                                    checks)
        legs == resolve_dispute_legs(s.bal, c, escrow, frozen)
        released == [ escrow EXCEPT !.is_released = TRUE,
                                    !.released_at = Some(now) ]
        out == IF ~ legs.ok
               THEN Err("TransferFailed", [ s EXCEPT !.bal = legs.bal ],
                        legs.transfers)
               ELSE Ok([ escrows |-> [ s.escrows EXCEPT ![c.job] = Some(released) ],
                         bal |-> legs.bal ],
                       Event("DisputeResolved", c.signer, 0, c.hirer_amount,
                             c.freelancer_amount), legs.transfers)
    IN  IF g # "Ok" THEN Err(g, s, 0)
        ELSE [ out EXCEPT !.sum_wrapped =
                 (c.hirer_amount + c.freelancer_amount >= Modulus),
                          !.failed_leg = legs.failed ]

\* ------------------------------------------------------- emergency_refund
\* The guard of emergency_refund with a second one that turns a disputed
\* escrow away, as release_payment does.
emergency_refund_guards_not_disputed(escrow) ==
    IF escrow.is_released THEN "AlreadyReleased"
    ELSE IF escrow.is_disputed THEN "InDispute"
    ELSE "Ok"

\* The one require! of emergency_refund.
emergency_refund_guards(escrow) ==
    IF escrow.is_released THEN "AlreadyReleased" ELSE "Ok"

emergency_refund(s, c, now, frozen) ==
    LET escrow == s.escrows[c.job][1]
        g == emergency_refund_guards(escrow)
        t == transfer(s.bal, c.escrow_token_account, Ata(escrow.hirer),
                      Pda(escrow.job_id), escrow.amount, frozen)
        released == [ escrow EXCEPT !.is_released = TRUE,
                                    !.released_at = Some(now) ]
    IN  IF g # "Ok" THEN Err(g, s, 0)
        ELSE IF ~ t.ok THEN Err("TransferFailed", s, 0)
        ELSE Ok([ escrows |-> [ s.escrows EXCEPT ![c.job] = Some(released) ],
                  bal |-> t.bal ],
                Event("EmergencyRefundIssued", c.signer, escrow.amount, 0, 0), 1)

\* ---------------------------------------------------------------- runtime
\* A runtime that keeps the handler's writes whatever it returns.
CommitAlways(pre, out) == out.s

\* The program entrypoint hands the handler's Result to the runtime: the
\* accounts the handler wrote are kept on Ok(()) and discarded on Err.
Commit(pre, out) == IF out.res = "Ok" THEN out.s ELSE pre

Finish(c, out) ==
    LET post == Commit(Accounts, out)
    IN  /\ escrows' = post.escrows
        /\ bal' = post.bal
        /\ tx' = None
        /\ last' = [ op |-> c.op, job |-> c.job, res |-> out.res,
                     event |-> out.event, transfers |-> out.transfers,
                     sum_wrapped |-> out.sum_wrapped,
                     failed_leg |-> out.failed_leg ]
        /\ UNCHANGED clock

\* What the token accounts may be at the moment an instruction runs: none
\* frozen, or the account of one party frozen by the mint's freeze authority.
FrozenChoices == {{}} \cup {{Ata(u)} : u \in Hirers \cup Freelancers}

\* The deployed build's overflow-checks setting: a u64 addition that
\* overflows panics when it is on and wraps when it is off.  The source does
\* not fix it, and an upgrade of the program can change it.
OverflowChecks == BOOLEAN

\* ---------------------------------------------------------------- actions
Init ==
    /\ escrows = [ j \in AllJobs |-> None ]
    /\ bal = [ a \in TokenAccounts |->
                 IF a \in {Ata(u) : u \in Users} THEN StartBalance(TokenOwner(a))
                 ELSE 0 ]
    /\ clock = 1
    /\ tx = None
    /\ last = NoOutcome

\* The Clock sysvar advances between instructions.
Tick ==
    /\ tx = None
    /\ clock < MaxTime
    /\ clock' = clock + 1
    /\ UNCHANGED << escrows, bal, tx, last >>

\* The token accounts a caller passes where the Accounts struct constrains
\* nothing but the type: the custody account of a job that has one, or the
\* caller's own associated token account.
EscrowTokenAccountChoices(signer) ==
    { a \in {Custody(j) : j \in AllJobs} : TokenAccountExists(Accounts, a) }
        \cup {Ata(signer)}

\* The token account the hirer pays from: the hirer's own, another wallet's,
\* or the custody account of an escrow.
HirerTokenAccountChoices ==
    {Ata(u) : u \in Hirers}
        \cup { a \in {Custody(j) : j \in AllJobs} : TokenAccountExists(Accounts, a) }

\* A client submits an instruction: the signer, the accounts the Accounts
\* struct leaves to the caller, and the arguments.  The accounts a constraint
\* pins (the freelancer's and the hirer's associated token accounts of
\* ReleasePayment, ResolveDispute and EmergencyRefund) are not choices: with
\* any other account the instruction never reaches the handler.  An
\* instruction on an Escrow account that does not exist never reaches it
\* either.  The parameters are the sets the choices are drawn from.
SubmitFrom(jobs, signers, freelancers, amounts, portions) ==
    /\ tx = None
    /\ \E job \in jobs, signer \in signers :
        \/ /\ signer \in Hirers
           /\ \E freelancer \in freelancers, amount \in amounts,
                 deadline \in Deadlines, hta \in HirerTokenAccountChoices :
              tx' = Some([ Instruction("initialize_escrow", job, signer) EXCEPT
                             !.freelancer = freelancer, !.amount = amount,
                             !.deadline = deadline,
                             !.hirer_token_account = hta ])
        \/ /\ escrows[job] # None
           /\ \E admin \in signers, eta \in EscrowTokenAccountChoices(signer) :
              tx' = Some([ Instruction("release_payment", job, signer) EXCEPT
                             !.platform_admin = admin,
                             !.escrow_token_account = eta ])
        \/ /\ escrows[job] # None
           /\ \E reason \in Reasons :
              tx' = Some([ Instruction("initiate_dispute", job, signer) EXCEPT
                             !.reason = reason ])
        \/ /\ escrows[job] # None
           /\ \E h \in portions, f \in portions,
                 eta \in EscrowTokenAccountChoices(signer) :
              tx' = Some([ Instruction("resolve_dispute", job, signer) EXCEPT
                             !.hirer_amount = h, !.freelancer_amount = f,
                             !.escrow_token_account = eta ])
        \/ /\ escrows[job] # None
           /\ \E eta \in EscrowTokenAccountChoices(signer) :
              tx' = Some([ Instruction("emergency_refund", job, signer) EXCEPT
                             !.escrow_token_account = eta ])
    /\ last' = NoOutcome
    /\ UNCHANGED << escrows, bal, clock >>

\* Any user submits any instruction with any arguments.
Submit(jobs) == SubmitFrom(jobs, Users, Freelancers, U64, U64)

\* The escrow account declared init_if_needed: an existing account is taken as
\* it is.
init_escrow_if_needed(s, job) == "Ok"

\* `init` on the escrow PDA: creating the account fails when the address is
\* already in use.
init_escrow(s, job) ==
    IF s.escrows[job] # None THEN "AccountAlreadyInUse" ELSE "Ok"

\* InitializeEscrow: the `init` constraint, then the handler.
InitializeEscrow ==
    /\ tx # None
    /\ tx[1].op = "initialize_escrow"
    /\ \E frozen \in FrozenChoices :
        Finish(tx[1],
               IF init_escrow(Accounts, tx[1].job) # "Ok"
               THEN Err(init_escrow(Accounts, tx[1].job), Accounts, 0)
               ELSE initialize_escrow(Accounts, tx[1], clock, frozen))

ReleasePayment ==
    /\ tx # None
    /\ tx[1].op = "release_payment"
    /\ \E frozen \in FrozenChoices :
        Finish(tx[1], release_payment(Accounts, tx[1], clock, frozen))

InitiateDispute ==
    /\ tx # None
    /\ tx[1].op = "initiate_dispute"
    /\ Finish(tx[1], initiate_dispute(Accounts, tx[1], clock))

ResolveDispute ==
    /\ tx # None
    /\ tx[1].op = "resolve_dispute"
    /\ \E frozen \in FrozenChoices, checks \in OverflowChecks :
        Finish(tx[1], resolve_dispute(Accounts, tx[1], clock, frozen, checks))

EmergencyRefund ==
    /\ tx # None
    /\ tx[1].op = "emergency_refund"
    /\ \E frozen \in FrozenChoices :
        Finish(tx[1], emergency_refund(Accounts, tx[1], clock, frozen))

Next ==
    \/ Tick
    \/ Submit(OneJob)
    \/ InitializeEscrow
    \/ ReleasePayment
    \/ InitiateDispute
    \/ ResolveDispute
    \/ EmergencyRefund

Spec == Init /\ [][Next]_vars

\* ------------------------------------------------------------- two jobs
\* Instructions for two jobs, interleaved in any order.  The hirer alice
\* funds both from one wallet, bob is the freelancer of both, and either of
\* them signs any instruction, passing any custody account that exists.
\* Time stands still: the instructions fall into one slot.
TwoJobSigners == {"alice", "bob"}
TwoJobFreelancers == {"bob"}
TwoJobAmounts == 1 .. AliceTokens
TwoJobPortions == 0 .. AliceTokens

SubmitTwoJobs ==
    SubmitFrom(AllJobs, TwoJobSigners, TwoJobFreelancers, TwoJobAmounts,
               TwoJobPortions)

Next2 ==
    \/ SubmitTwoJobs
    \/ InitializeEscrow
    \/ ReleasePayment
    \/ InitiateDispute
    \/ ResolveDispute
    \/ EmergencyRefund

Spec2 == Init /\ [][Next2]_vars

\* ------------------------------------------------------------ vocabulary
\* The arbitrator identity the platform designates.  No line of the program
\* names it: the handlers only see the accounts the caller passes.
PlatformAdmin == "admin"

\* The instruction in flight, and the escrow it addresses.
Call == tx[1]
Escrow(job) == escrows[job][1]
Exists(job) == escrows[job] # None

Released(job) == Exists(job) /\ Escrow(job).is_released
Disputed(job) ==
    Exists(job) /\ Escrow(job).is_disputed /\ ~ Escrow(job).is_released
Active(job) ==
    Exists(job) /\ ~ Escrow(job).is_disputed /\ ~ Escrow(job).is_released

\* This step runs the instruction in flight, and it is an `op`.
Runs(op) == tx # None /\ tx' = None /\ Call.op = op
RunsAny(ops) == tx # None /\ tx' = None /\ Call.op \in ops

\* The escrow is released in the step's next state.
ReleasedNext(job) == escrows'[job] # None /\ escrows'[job][1].is_released

\* The step changes no Escrow account and no token balance.
NoEffect == escrows' = escrows /\ bal' = bal

\* What the escrow's two parties hold together.
PartiesHold(b, job) ==
    IF Escrow(job).hirer = Escrow(job).freelancer
    THEN b[Ata(Escrow(job).hirer)]
    ELSE b[Ata(Escrow(job).hirer)] + b[Ata(Escrow(job).freelancer)]

\* ------------------------------------------------------------------ C1
\* C1 (as claimed): once an escrow is released, every release_payment,
\* initiate_dispute, resolve_dispute and emergency_refund on it fails with
\* AlreadyReleased and moves no funds.
C1_ReleasedCallsFailAlreadyReleased ==
    [][ ( /\ RunsAny({"release_payment", "initiate_dispute",
                      "resolve_dispute", "emergency_refund"})
          /\ Released(Call.job) )
        => (last'.res = "AlreadyReleased" /\ NoEffect) ]_vars

\* A resolve_dispute on an escrow released without a dispute was refused
\* with NotInDispute.
C1_Witness ==
    /\ last.op = "resolve_dispute"
    /\ last.res = "NotInDispute"
    /\ Released(last.job)
    /\ Escrow(last.job).amount > 0
    /\ Escrow(last.job).disputed_at = None

\* ------------------------------------------------------------------ C2
\* C2 (as claimed): on an Active escrow, release_payment signed by a key that
\* is neither the recorded hirer nor the platform admin fails with
\* UnauthorizedRelease and moves no funds, whatever accounts are passed.
C2_StrangerCannotRelease ==
    [][ ( /\ Runs("release_payment")
          /\ Active(Call.job)
          /\ Call.signer # Escrow(Call.job).hirer
          /\ Call.signer # PlatformAdmin )
        => (last'.res = "UnauthorizedRelease" /\ NoEffect) ]_vars

\* A key that is neither the hirer nor the platform admin released the
\* payment: custody is empty and the escrow reads released.
C2_Witness ==
    /\ last.op = "release_payment"
    /\ last.res = "Ok"
    /\ last.event.by # Escrow(last.job).hirer
    /\ last.event.by # PlatformAdmin
    /\ Escrow(last.job).amount > 0
    /\ Released(last.job)
    /\ bal[Custody(last.job)] = 0

\* ------------------------------------------------------------------ C3
\* C3 (as claimed): resolve_dispute and emergency_refund signed by any key
\* other than the platform admin fail and leave the record and all balances
\* unchanged.
C3_OnlyAdminResolvesOrRefunds ==
    [][ ( /\ RunsAny({"resolve_dispute", "emergency_refund"})
          /\ Call.signer # PlatformAdmin )
        => (last'.res # "Ok" /\ NoEffect) ]_vars

\* A key that is neither the platform admin nor a party of the escrow
\* refunded it.
C3_Witness ==
    /\ last.op = "emergency_refund"
    /\ last.res = "Ok"
    /\ last.event.by \notin { PlatformAdmin, Escrow(last.job).hirer,
                              Escrow(last.job).freelancer }
    /\ Escrow(last.job).amount > 0
    /\ Released(last.job)
    /\ bal[Custody(last.job)] = 0

\* ------------------------------------------------------------------ C4
\* C4: on an Active escrow, initiate_dispute signed by the recorded hirer or
\* the recorded freelancer succeeds and marks the escrow disputed; signed by
\* anyone else it fails with UnauthorizedDispute and leaves is_disputed,
\* dispute_reason and disputed_at (the whole record) unchanged.
C4_DisputeAuthorization ==
    [][ ( Runs("initiate_dispute") /\ Active(Call.job) )
        => IF Call.signer \in { Escrow(Call.job).hirer,
                                Escrow(Call.job).freelancer }
           THEN /\ last'.res = "Ok"
                /\ escrows'[Call.job][1].is_disputed
                /\ escrows'[Call.job][1].dispute_reason = Some(Call.reason)
           ELSE /\ last'.res = "UnauthorizedDispute"
                /\ escrows' = escrows ]_vars

\* An initiate_dispute was refused for its signer: the escrow is still Active.
C4_Witness ==
    /\ last.op = "initiate_dispute"
    /\ last.res = "UnauthorizedDispute"
    /\ Active(last.job)
    /\ Escrow(last.job).dispute_reason = None
    /\ Escrow(last.job).disputed_at = None

\* ------------------------------------------------------------------ C5
\* C5: after every step that changes a record or a balance, a job's custody
\* account holds exactly amount while its escrow is not released and exactly
\* 0 once it is; initialize_escrow puts amount into it, and whatever leaves
\* it in a step is what the hirer and the freelancer gain in that step, so
\* the payouts of a lifetime add up to amount.
CustodyExact ==
    \A j \in AllJobs :
        Exists(j) =>
            bal[Custody(j)] = IF Escrow(j).is_released THEN 0
                              ELSE Escrow(j).amount

C6_ResolveIsAtomic ==
    [][ /\ ( Runs("resolve_dispute") /\ last'.res # "Ok" ) => NoEffect
        /\ ( /\ Runs("resolve_dispute")
             /\ ~ Released(Call.job)
             /\ ReleasedNext(Call.job) ) =>
              /\ last'.res = "Ok"
              /\ bal[Custody(Call.job)] - bal'[Custody(Call.job)]
                    = Call.hirer_amount + Call.freelancer_amount
              /\ last'.transfers
                    = (IF Call.freelancer_amount > 0 THEN 1 ELSE 0)
                      + (IF Call.hirer_amount > 0 THEN 1 ELSE 0)
        /\ \A j \in AllJobs :
              Disputed(j)' => bal'[Custody(j)] = escrows'[j][1].amount ]_vars

\* The freelancer's transfer succeeded, the hirer's failed: the escrow still
\* reads Disputed and custody still holds amount.
C6_Witness ==
    /\ last.op = "resolve_dispute"
    /\ last.res = "TransferFailed"
    /\ last.transfers = 1
    /\ Disputed(last.job)
    /\ bal[Custody(last.job)] = Escrow(last.job).amount
    /\ Escrow(last.job).amount > 0

C8_ReleaseAndResolveExclude ==
    [][ /\ ( Runs("release_payment") /\ Disputed(Call.job) )
              => (last'.res = "InDispute" /\ NoEffect)
        /\ ( Runs("resolve_dispute") /\ Active(Call.job) )
              => (last'.res = "NotInDispute" /\ NoEffect) ]_vars

\* A release_payment was refused on a Disputed escrow.
C8_Witness ==
    /\ last.op = "release_payment"
    /\ last.res = "InDispute"
    /\ Disputed(last.job)

\* ------------------------------------------------------------------ C9
\* C9: every resolve_dispute that returns Ok has hirer_amount +
\* freelancer_amount = amount as integers, not only modulo 2^Width, and takes
\* exactly amount out of custody.
C9_SplitSumsToAmount ==
    [][ ( Runs("resolve_dispute") /\ last'.res = "Ok" )
        => /\ Call.hirer_amount + Call.freelancer_amount
                 = Escrow(Call.job).amount
           /\ bal[Custody(Call.job)] - bal'[Custody(Call.job)]
                 = Escrow(Call.job).amount ]_vars

\* A pair whose u64 sum wrapped passed the split check and the instruction
\* failed all the same.
C9_Witness ==
    /\ last.op = "resolve_dispute"
    /\ last.sum_wrapped
    /\ last.res = "TransferFailed"
    /\ Disputed(last.job)

\* ------------------------------------------------------------------ C10
\* C10 (as claimed): resolve_dispute on a Disputed escrow with hirer_amount +
\* freelancer_amount different from amount fails with InvalidSplitAmount and
\* changes no record and no balance.
C10_InvalidSplitRejected ==
    [][ ( /\ Runs("resolve_dispute")
          /\ Disputed(Call.job)
          /\ Call.hirer_amount + Call.freelancer_amount
                # Escrow(Call.job).amount )
        => (last'.res = "InvalidSplitAmount" /\ NoEffect) ]_vars

\* A pair whose u64 sum overflows made the program panic on a Disputed
\* escrow.
C10_Witness ==
    /\ last.op = "resolve_dispute"
    /\ last.res = "ProgramFailedToComplete"
    /\ Disputed(last.job)
    /\ Escrow(last.job).amount > 0

\* ------------------------------------------------------------ vocabulary
\* What a step adds to a token account.
Gain(account) == bal'[account] - bal[account]

\* The record of `job` after a release at the clock's time.
ReleasedRecord(job) ==
    [ Escrow(job) EXCEPT !.is_released = TRUE, !.released_at = Some(clock) ]

\* ------------------------------------------------------------------ C11
\* C11: a resolve_dispute that returns Ok ran on a Disputed escrow; it adds
\* freelancer_amount to the freelancer's token account and hirer_amount to
\* the hirer's (both to the one account when the record names one wallet as
\* both), takes amount out of custody and changes no other balance; it makes
\* one transfer per nonzero portion; the record becomes released with
\* released_at set and nothing else changed.  The freelancer's transfer comes
\* first: when the hirer's transfer fails the freelancer's has been made, and
\* when the freelancer's fails none has.
C11_SplitPayout ==
    [][ /\ ( Runs("resolve_dispute") /\ last'.res = "Ok" ) =>
              /\ Disputed(Call.job)
              /\ \A a \in TokenAccounts :
                    Gain(a) =
                        (IF a = Ata(Escrow(Call.job).freelancer)
                         THEN Call.freelancer_amount ELSE 0)
                      + (IF a = Ata(Escrow(Call.job).hirer)
                         THEN Call.hirer_amount ELSE 0)
                      - (IF a = Custody(Call.job)
                         THEN Escrow(Call.job).amount ELSE 0)
              /\ last'.transfers
                    = (IF Call.freelancer_amount > 0 THEN 1 ELSE 0)
                      + (IF Call.hirer_amount > 0 THEN 1 ELSE 0)
              /\ escrows' = [ escrows EXCEPT
                                ![Call.job] = Some(ReleasedRecord(Call.job)) ]
              /\ escrows'[Call.job][1].released_at # None
        /\ ( Runs("resolve_dispute") /\ last'.failed_leg = "hirer" ) =>
              /\ Call.hirer_amount > 0
              /\ last'.transfers = (IF Call.freelancer_amount > 0 THEN 1 ELSE 0)
        /\ ( Runs("resolve_dispute") /\ last'.failed_leg = "freelancer" ) =>
              /\ Call.freelancer_amount > 0
              /\ last'.transfers = 0 ]_vars

\* A dispute was resolved with a portion for each of two different parties.
C11_Witness ==
    /\ last.op = "resolve_dispute"
    /\ last.res = "Ok"
    /\ last.event.hirer_amount > 0
    /\ last.event.freelancer_amount > 0
    /\ last.transfers = 2
    /\ Escrow(last.job).hirer # Escrow(last.job).freelancer
    /\ Released(last.job)
    /\ Escrow(last.job).released_at # None
    /\ bal[Ata(Escrow(last.job).freelancer)] = last.event.freelancer_amount

\* ------------------------------------------------------------------ C12
\* C12: an emergency_refund that the platform admin signs for an escrow that
\* is not released, Active or Disputed alike, passing the escrow's custody
\* account, is refused by no guard: it returns Ok unless the token program
\* refuses the transfer, and it returns Ok when no token account is frozen.
\* An emergency_refund that returns Ok adds amount to the hirer's token
\* account, takes it out of custody and changes no other balance, and the
\* record becomes released with released_at set and nothing else changed.
C12_EmergencyRefund ==
    [][ /\ ( /\ Runs("emergency_refund")
             /\ ~ Released(Call.job)
             /\ Call.signer = PlatformAdmin
             /\ Call.escrow_token_account = Custody(Call.job) ) =>
              /\ last'.res \in {"Ok", "TransferFailed"}
              /\ emergency_refund(Accounts, Call, clock, {}).res = "Ok"
        /\ ( Runs("emergency_refund") /\ last'.res = "Ok" ) =>
              /\ ~ Released(Call.job)
              /\ \A a \in TokenAccounts :
                    Gain(a) =
                        (IF a = Ata(Escrow(Call.job).hirer)
                         THEN Escrow(Call.job).amount ELSE 0)
                      - (IF a = Custody(Call.job)
                         THEN Escrow(Call.job).amount ELSE 0)
              /\ last'.transfers = 1
              /\ escrows' = [ escrows EXCEPT
                                ![Call.job] = Some(ReleasedRecord(Call.job)) ]
              /\ escrows'[Call.job][1].released_at # None ]_vars

\* The admin refunded a disputed escrow: the hirer holds the amount again and
\* the freelancer, another wallet, holds nothing.
C12_Witness ==
    /\ last.op = "emergency_refund"
    /\ last.res = "Ok"
    /\ last.event.by = PlatformAdmin
    /\ Released(last.job)
    /\ Escrow(last.job).is_disputed
    /\ Escrow(last.job).amount > 0
    /\ Escrow(last.job).hirer # Escrow(last.job).freelancer
    /\ bal[Ata(Escrow(last.job).hirer)] = StartBalance(Escrow(last.job).hirer)
    /\ bal[Ata(Escrow(last.job).freelancer)] = 0
    /\ bal[Custody(last.job)] = 0

\* ------------------------------------------------------------------ C13
\* C13: a release_payment that returns Ok ran on an Active escrow; it adds
\* amount to the freelancer's token account, takes it out of custody and
\* changes no other balance, and the record becomes released with
\* released_at set and nothing else changed.  On an Active escrow a
\* release_payment signed by the hirer, or signed by the platform admin who
\* passes its own key as platform_admin, with the escrow's custody account,
\* is refused by no guard: it returns Ok unless the token program refuses
\* the transfer, and it returns Ok when no token account is frozen.
C13_ReleaseToFreelancer ==
    [][ /\ ( Runs("release_payment") /\ last'.res = "Ok" ) =>
              /\ Active(Call.job)
              /\ \A a \in TokenAccounts :
                    Gain(a) =
                        (IF a = Ata(Escrow(Call.job).freelancer)
                         THEN Escrow(Call.job).amount ELSE 0)
                      - (IF a = Custody(Call.job)
                         THEN Escrow(Call.job).amount ELSE 0)
              /\ last'.transfers = 1
              /\ escrows' = [ escrows EXCEPT
                                ![Call.job] = Some(ReleasedRecord(Call.job)) ]
              /\ escrows'[Call.job][1].released_at # None
        /\ ( /\ Runs("release_payment")
             /\ Active(Call.job)
             /\ \/ Call.signer = Escrow(Call.job).hirer
                \/ /\ Call.signer = PlatformAdmin
                   /\ Call.platform_admin = PlatformAdmin
             /\ Call.escrow_token_account = Custody(Call.job) ) =>
              /\ last'.res \in {"Ok", "TransferFailed"}
              /\ release_payment(Accounts, Call, clock, {}).res = "Ok" ]_vars

\* The platform admin released an Active escrow to a freelancer who is not
\* the hirer: the freelancer holds the amount, the hirer is short of it.
C13_Witness ==
    /\ last.op = "release_payment"
    /\ last.res = "Ok"
    /\ last.event.by = PlatformAdmin
    /\ Released(last.job)
    /\ ~ Escrow(last.job).is_disputed
    /\ Escrow(last.job).amount > 0
    /\ Escrow(last.job).hirer # Escrow(last.job).freelancer
    /\ bal[Ata(Escrow(last.job).freelancer)] = Escrow(last.job).amount
    /\ bal[Ata(Escrow(last.job).hirer)]
          = StartBalance(Escrow(last.job).hirer) - Escrow(last.job).amount
    /\ bal[Custody(last.job)] = 0

\* ------------------------------------------------------------------ C14
\* The status of an Escrow account: Released when is_released, else Disputed
\* when is_disputed, else Active.
StatusOf(account) ==
    IF account = None THEN "None"
    ELSE IF account[1].is_released THEN "Released"
    ELSE IF account[1].is_disputed THEN "Disputed"
    ELSE "Active"

\* C14: a record, once created, stays; its status changes only from Active
\* to Disputed by initiate_dispute, from Active to Released by
\* release_payment or emergency_refund, and from Disputed to Released by
\* resolve_dispute or emergency_refund, each addressed to that job; so no
\* step leads from Disputed to Active and none out of Released.  A record
\* comes into being Active, by initialize_escrow.  Once a record is released,
\* is_disputed, dispute_reason, disputed_at, released_at and amount never
\* change, and the amount of a record never changes at all.
C14_LegalTransitions ==
    [][ \A j \in AllJobs :
          LET before == StatusOf(escrows[j])
              after  == StatusOf(escrows'[j])
          IN  /\ before # after =>
                  /\ Runs(Call.op)
                  /\ Call.job = j
                  /\ \/ /\ before = "None" /\ after = "Active"
                        /\ Call.op = "initialize_escrow"
                     \/ /\ before = "Active" /\ after = "Disputed"
                        /\ Call.op = "initiate_dispute"
                     \/ /\ before = "Active" /\ after = "Released"
                        /\ Call.op \in {"release_payment", "emergency_refund"}
                     \/ /\ before = "Disputed" /\ after = "Released"
                        /\ Call.op \in {"resolve_dispute", "emergency_refund"}
              /\ before = "Released" =>
                  /\ after = "Released"
                  /\ escrows'[j][1].is_disputed = escrows[j][1].is_disputed
                  /\ escrows'[j][1].dispute_reason = escrows[j][1].dispute_reason
                  /\ escrows'[j][1].disputed_at = escrows[j][1].disputed_at
                  /\ escrows'[j][1].released_at = escrows[j][1].released_at
              /\ ( before # "None" /\ after # "None" ) =>
                  escrows'[j][1].amount = escrows[j][1].amount ]_vars

\* A dispute was raised against a released escrow that had never been
\* disputed, and was refused.
C14_Witness ==
    /\ last.op = "initiate_dispute"
    /\ last.res = "AlreadyReleased"
    /\ Released(last.job)
    /\ ~ Escrow(last.job).is_disputed
    /\ Escrow(last.job).dispute_reason = None
    /\ Escrow(last.job).released_at # None

\* ------------------------------------------------------------------ C15
\* C15: every record has amount > 0, and an initialize_escrow with amount 0
\* returns an error and creates no record.
C15_PositiveAmount ==
    [][ /\ ( Runs("initialize_escrow") /\ Call.amount = 0 ) =>
              /\ last'.res # "Ok"
              /\ escrows' = escrows
        /\ \A j \in AllJobs :
              escrows'[j] # None => escrows'[j][1].amount > 0 ]_vars

\* An escrow of amount 0 was created.
C15_Witness ==
    /\ last.op = "initialize_escrow"
    /\ last.res = "Ok"
    /\ last.event.amount = 0
    /\ Exists(last.job)
    /\ Escrow(last.job).amount = 0
    /\ ~ Released(last.job)

\* ------------------------------------------------------------------ C16
\* C16: every record has hirer # freelancer, and an initialize_escrow whose
\* freelancer is the signing hirer returns an error and creates no record.
C16_DistinctParties ==
    [][ /\ ( Runs("initialize_escrow") /\ Call.freelancer = Call.signer ) =>
              /\ last'.res # "Ok"
              /\ escrows' = escrows
        /\ \A j \in AllJobs :
              escrows'[j] # None =>
                  escrows'[j][1].hirer # escrows'[j][1].freelancer ]_vars

\* An escrow was created and funded whose hirer and freelancer are one wallet.
C16_Witness ==
    /\ last.op = "initialize_escrow"
    /\ last.res = "Ok"
    /\ Exists(last.job)
    /\ Escrow(last.job).hirer = Escrow(last.job).freelancer
    /\ Escrow(last.job).amount > 0
    /\ bal[Custody(last.job)] = Escrow(last.job).amount

\* ------------------------------------------------------------------ C17
\* C17: an initialize_escrow for a job_id that has a record, be it Active,
\* Disputed or Released, returns an error and changes neither the record nor
\* any balance: not custody's, not the caller's.
C17_OneRecordPerJob ==
    [][ ( Runs("initialize_escrow") /\ Exists(Call.job) ) =>
            /\ last'.res = "AccountAlreadyInUse"
            /\ NoEffect
            /\ escrows'[Call.job] = escrows[Call.job]
            /\ bal'[Custody(Call.job)] = bal[Custody(Call.job)]
            /\ bal'[Call.hirer_token_account] = bal[Call.hirer_token_account]
      ]_vars

\* A second initialize_escrow was refused for a job whose escrow had been
\* paid out, with funds still in the hirer's wallet.
C17_Witness ==
    /\ last.op = "initialize_escrow"
    /\ last.res = "AccountAlreadyInUse"
    /\ Released(last.job)
    /\ bal[Custody(last.job)] = 0
    /\ bal[Ata(Escrow(last.job).hirer)] > 0

\* ------------------------------------------------------------------ C18
\* C18: an initiate_dispute changes no balance; when it returns Ok it sets
\* is_disputed, dispute_reason (to the reason given) and disputed_at of the
\* addressed record and changes no other field and no other record.  No
\* other operation sets dispute_reason: a record is created without one, and
\* the dispute_reason of a record changes only in an initiate_dispute
\* addressed to it.
C18_DisputeMovesNoFunds ==
    [][ /\ Runs("initiate_dispute") =>
              /\ bal' = bal
              /\ last'.transfers = 0
              /\ last'.res = "Ok" =>
                    escrows' = [ escrows EXCEPT ![Call.job] =
                        Some([ Escrow(Call.job) EXCEPT
                                 !.is_disputed = TRUE,
                                 !.dispute_reason = Some(Call.reason),
                                 !.disputed_at = Some(clock) ]) ]
              /\ last'.res # "Ok" => escrows' = escrows
        /\ \A j \in AllJobs :
              /\ ( escrows[j] = None /\ escrows'[j] # None ) =>
                    escrows'[j][1].dispute_reason = None
              /\ ( /\ escrows[j] # None
                   /\ escrows'[j] # None
                   /\ escrows'[j][1].dispute_reason
                        # escrows[j][1].dispute_reason ) =>
                    ( Runs("initiate_dispute") /\ Call.job = j ) ]_vars

\* The freelancer raised a dispute on a funded escrow: the reason is on the
\* record and custody still holds the amount.
C18_Witness ==
    /\ last.op = "initiate_dispute"
    /\ last.res = "Ok"
    /\ last.event.by = Escrow(last.job).freelancer
    /\ Escrow(last.job).hirer # Escrow(last.job).freelancer
    /\ Disputed(last.job)
    /\ Escrow(last.job).dispute_reason # None
    /\ Escrow(last.job).disputed_at # None
    /\ Escrow(last.job).amount > 0
    /\ bal[Custody(last.job)] = Escrow(last.job).amount

\* ------------------------------------------------------------------ C19
\* An instruction runs in this step.
RunsInstruction == tx # None /\ tx' = None

RefundByAdmin(job) ==
    [ Instruction("emergency_refund", job, PlatformAdmin) EXCEPT
        !.escrow_token_account = Custody(job) ]
ReleaseByHirer(job) ==
    [ Instruction("release_payment", job, Escrow(job).hirer) EXCEPT
        !.platform_admin = PlatformAdmin,
        !.escrow_token_account = Custody(job) ]
ResolveByAdmin(job, h, f) ==
    [ Instruction("resolve_dispute", job, PlatformAdmin) EXCEPT
        !.hirer_amount = h, !.freelancer_amount = f,
        !.escrow_token_account = Custody(job) ]

\* The platform admin's emergency_refund of `job`, sent and run in one step
\* and not refused by the token program.  It does not wait for the
\* instruction another client has pending: it is scheduled ahead of it.
AdminEmergencyRefund(job) ==
    /\ Exists(job)
    /\ \E frozen \in FrozenChoices :
        LET out == emergency_refund(Accounts, RefundByAdmin(job), clock, frozen)
        IN  /\ out.res = "Ok"
            /\ escrows' = Commit(Accounts, out).escrows
            /\ bal' = Commit(Accounts, out).bal
            /\ last' = [ op |-> "emergency_refund", job |-> job,
                         res |-> out.res, event |-> out.event,
                         transfers |-> out.transfers,
                         sum_wrapped |-> out.sum_wrapped,
                         failed_leg |-> out.failed_leg ]
    /\ UNCHANGED << clock, tx >>

\* The hirer alice and the admin submit any instruction for one job whose
\* freelancer is bob, with amounts and portions up to what the hirer holds.
FairSigners == {"alice", "admin"}
FairFreelancers == {"bob"}
FairAmounts == 0 .. AliceTokens

SubmitFunded ==
    SubmitFrom(OneJob, FairSigners, FairFreelancers, FairAmounts, FairAmounts)

FairNext ==
    \/ Tick
    \/ SubmitFunded
    \/ InitializeEscrow
    \/ ReleasePayment
    \/ InitiateDispute
    \/ ResolveDispute
    \/ EmergencyRefund
    \/ \E job \in OneJob : AdminEmergencyRefund(job)

\* The admin's refund, while it can succeed, is not put off for ever.
FairSpec ==
    /\ Init
    /\ [][FairNext]_vars
    /\ \A job \in OneJob : WF_vars(AdminEmergencyRefund(job))

\* While an escrow is not released its custody account holds the full
\* amount, and with no token account frozen the admin's emergency_refund
\* returns Ok, so does the hirer's release_payment when the escrow is Active,
\* and so does a resolve_dispute whose portions sum to amount when it is
\* Disputed.
FundsAvailable ==
    \A j \in AllJobs :
        ( Exists(j) /\ ~ Released(j) ) =>
            /\ bal[Custody(j)] = Escrow(j).amount
            /\ emergency_refund(Accounts, RefundByAdmin(j), clock, {}).res = "Ok"
            /\ Active(j) =>
                  release_payment(Accounts, ReleaseByHirer(j), clock, {}).res
                      = "Ok"
            /\ Disputed(j) =>
                  \A h \in 0 .. Escrow(j).amount, checks \in OverflowChecks :
                      resolve_dispute(Accounts,
                                      ResolveByAdmin(j, h, Escrow(j).amount - h),
                                      clock, {}, checks).res = "Ok"

====
